---- MODULE Spec2Model ----
(***************************************************************************)
(* Model of the steel-manager form application (src/main.py): the entry    *)
(* list kept by FormulaireApp, its id counter, the Treeview that mirrors   *)
(* it, and the JSON file DataHandler reads and overwrites.                 *)
(*                                                                         *)
(* Text is a sequence of one-character strings, so that int(), str() and   *)
(* the JSON number syntax are computed rather than assumed.                *)
(***************************************************************************)
EXTENDS Integers, Sequences, FiniteSets, TLC

VARIABLES
    entries,      \* self.entries: sequence of Entry objects
    id_counter,   \* self.id_counter
    file,         \* data.json: [exists |-> BOOLEAN, data |-> sequence of JSON objects]
    tree,         \* rows of self.tree, each the displayed values of one item
    message,      \* the last dialog a handler showed ("" when it showed none)
    save_errors   \* how many times save_data has raised in a handler

vars == <<entries, id_counter, file, tree, message, save_errors>>

----------------------------------------------------------------------------
(* Bounds of the model *)

MaxId == 3           \* add is not taken once id_counter is above this
MaxSaveErrors == 1   \* save_data fails at most this often (SpecSaveFails only)

----------------------------------------------------------------------------
(* Program constants *)

TareOffset == 45     \* "Subtract 45 kg from the entered weight"

Password == <<"1", "9", "9", "2">>

\* The dropdown offers material_list; its variable starts at "Inox".
Materials == {"Inox", "Acier"}

\* What simpledialog.askstring can return: a text, or None on cancel.
None == <<"None">>
PasswordInputs == {Password, <<"1", "9", "9", "3">>, None}

\* Days datetime.now() may fall on, already formatted "%d/%m/%Y".
Dates == {"01/11/2026", "02/11/2026"}

\* Contents of the weight field when "Valider" is pressed.
PoidsInputs ==
    { <<>>,
      <<"5", "0">>,
      <<" ", "+", "5", "_", "0", " ">>,
      <<"-", "7">>,
      <<"a", "b">>,
      <<"5", ".", "0">>,
      <<"5", "_">>,
      <<" ">> }

\* Dialog texts
MsgNone == ""
MsgBadPassword == "Mot de passe incorrect."
MsgEmptyPoids == "Veuillez remplir le champ Poids."
MsgNotANumber == "Le poids doit etre un nombre."
MsgNoSelection == "Veuillez selectionner une ligne a supprimer."
MsgDeleted == "L'entree a ete supprimee."
MsgExported == "Le tableau a ete exporte en PDF."
MsgCleared == "Le tableau a ete vide."

----------------------------------------------------------------------------
(* Text and numbers *)

DigitChars == <<"0", "1", "2", "3", "4", "5", "6", "7", "8", "9">>

IsDigit(c) == \E i \in 1..10 : DigitChars[i] = c

DigitValue(c) == (CHOOSE i \in 1..10 : DigitChars[i] = c) - 1

RECURSIVE NatStr(_)
\* Decimal digits of a natural number, as str() and json.dump write it.
NatStr(n) ==
    IF n < 10 THEN <<DigitChars[n + 1]>>
    ELSE NatStr(n \div 10) \o <<DigitChars[(n % 10) + 1]>>

\* str(n) for a Python int.
Str(n) == IF n < 0 THEN <<"-">> \o NatStr(0 - n) ELSE NatStr(n)

RECURSIVE DigitsValue(_, _)
\* Value of a run of digits, underscores skipped; acc is the value so far.
DigitsValue(s, acc) ==
    IF s = <<>> THEN acc
    ELSE IF Head(s) = "_" THEN DigitsValue(Tail(s), acc)
    ELSE DigitsValue(Tail(s), acc * 10 + DigitValue(Head(s)))

RECURSIVE LStrip(_)
LStrip(s) == IF s # <<>> /\ Head(s) = " " THEN LStrip(Tail(s)) ELSE s

RECURSIVE RStrip(_)
RStrip(s) ==
    IF s # <<>> /\ s[Len(s)] = " " THEN RStrip(SubSeq(s, 1, Len(s) - 1)) ELSE s

Strip(s) == RStrip(LStrip(s))

\* The digit part of an int() literal: digits, single underscores only between them.
IsDigitRun(s) ==
    /\ s # <<>>
    /\ \A i \in 1..Len(s) : IsDigit(s[i]) \/ s[i] = "_"
    /\ IsDigit(s[1])
    /\ IsDigit(s[Len(s)])
    /\ \A i \in 1..(Len(s) - 1) : ~(s[i] = "_" /\ s[i + 1] = "_")

Unsigned(s) == IF s # <<>> /\ Head(s) \in {"+", "-"} THEN Tail(s) ELSE s

\* int(text) does not raise ValueError.
IsInt(text) == IsDigitRun(Unsigned(Strip(text)))

\* int(text), for a text with IsInt(text).
Int_(text) ==
    LET body == Strip(text)
    IN  IF Head(body) = "-" THEN 0 - DigitsValue(Tail(body), 0)
        ELSE DigitsValue(Unsigned(body), 0)

\* The number json.load reads from the digits json.dump wrote.
JsonNumber(text) ==
    IF Head(text) = "-" THEN 0 - DigitsValue(Tail(text), 0)
    ELSE DigitsValue(text, 0)

----------------------------------------------------------------------------
(* Entry and DataHandler *)

\* Entry(entry_id, date, matiere, poids): the object __init__ builds.
Entry(entry_id, date, matiere, poids) ==
    [id |-> entry_id, date |-> date, matiere |-> matiere, poids |-> poids]

\* One object of the JSON array: numbers are written as decimal text.
JsonObject(entry) ==
    [id |-> Str(entry.id), date |-> entry.date,
     matiere |-> entry.matiere, poids |-> Str(entry.poids)]

\* The file save_data leaves behind: the whole list, in order.
SaveData(es) ==
    [exists |-> TRUE, data |-> [i \in 1..Len(es) |-> JsonObject(es[i])]]

\* Variant: the offset is applied again to the weight read back.
LoadDataTare(f) ==
    IF f.exists
    THEN [i \in 1..Len(f.data) |->
            Entry(JsonNumber(f.data[i].id), f.data[i].date,
                  f.data[i].matiere, JsonNumber(f.data[i].poids) - TareOffset)]
    ELSE <<>>

\* load_data: [] when the file does not exist, else one Entry per object.
LoadData(f) ==
    IF f.exists
    THEN [i \in 1..Len(f.data) |->
            Entry(JsonNumber(f.data[i].id), f.data[i].date,
                  f.data[i].matiere, JsonNumber(f.data[i].poids))]
    ELSE <<>>

NoFile == [exists |-> FALSE, data |-> <<>>]

----------------------------------------------------------------------------
(* Treeview *)

\* The values of the item inserted for an entry, as Tk keeps them: text.
Row(entry) == <<Str(entry.id), entry.date, entry.matiere, Str(entry.poids)>>

\* update_treeview: every item deleted, one inserted per entry; nothing selected.
UpdateTreeview(es) == [i \in 1..Len(es) |-> Row(es[i])]

\* tree.delete(item): the rows without the one at index i.
TreeDelete(t, i) == SubSeq(t, 1, i - 1) \o SubSeq(t, i + 1, Len(t))

----------------------------------------------------------------------------
(* Weight summary *)

RECURSIVE SummaryFrom(_, _)
\* The loop of calculate_weight_summary over es, starting from dictionary d
\* (a function from the materials seen so far to their totals).
SummaryFrom(es, d) ==
    IF es = <<>> THEN d
    ELSE LET e == Head(es)
             d2 == IF e.matiere \in DOMAIN d
                   THEN [d EXCEPT ![e.matiere] = d[e.matiere] + e.poids]
                   ELSE [m \in (DOMAIN d) \cup {e.matiere} |->
                            IF m = e.matiere THEN e.poids ELSE d[m]]
         IN  SummaryFrom(Tail(es), d2)

EmptyDict == [m \in {} |-> 0]

RECURSIVE OverwriteFrom(_, _)
OverwriteFrom(es, d) ==
    IF es = <<>> THEN d
    ELSE LET e == Head(es)
         IN  OverwriteFrom(Tail(es),
                 [m \in (DOMAIN d) \cup {e.matiere} |->
                     IF m = e.matiere THEN e.poids ELSE d[m]])

\* Variant: "=" where the loop has "+=": the last weight of a material wins.
CalculateWeightSummaryOverwrite(es) == OverwriteFrom(es, EmptyDict)

CalculateWeightSummary(es) == SummaryFrom(es, EmptyDict)

----------------------------------------------------------------------------
(* FormulaireApp *)

\* __init__ on a fresh process, data.json absent or holding an empty list.
Init ==
    /\ file \in {NoFile, SaveData(<<>>)}
    /\ entries = LoadData(file)
    /\ id_counter = 1
    /\ tree = UpdateTreeview(entries)
    /\ message = MsgNone
    /\ save_errors = 0

\* validate_entry's outcome: the dialog it shows, MsgNone when it returns True.
ValidateEntry(poids) ==
    IF poids = <<>> THEN MsgEmptyPoids
    ELSE IF ~IsInt(poids) THEN MsgNotANumber
    ELSE MsgNone

\* Variant: the offset is left out.
ModifWeightNoTare(poids) == Int_(poids)

\* The weight add_entry stores.
ModifWeight(poids) == Int_(poids) - TareOffset

\* Variant: the new id is taken from the length of the list, not the counter.
AddEntryWithLenId(matiere, poids, date) ==
    IF ValidateEntry(poids) # MsgNone
    THEN /\ message' = ValidateEntry(poids)
         /\ UNCHANGED <<entries, id_counter, file, tree>>
    ELSE /\ id_counter <= MaxId
         /\ entries' = Append(entries,
                              Entry(Len(entries) + 1, date, matiere, ModifWeight(poids)))
         /\ id_counter' = id_counter + 1
         /\ file' = SaveData(entries')
         /\ tree' = UpdateTreeview(entries')
         /\ message' = MsgNone

\* add_entry with the given dropdown value, field text and current day.
AddEntryWith(matiere, poids, date) ==
    IF ValidateEntry(poids) # MsgNone
    THEN /\ message' = ValidateEntry(poids)
         /\ UNCHANGED <<entries, id_counter, file, tree>>
    ELSE /\ id_counter <= MaxId
         /\ entries' = Append(entries,
                              Entry(id_counter, date, matiere, ModifWeight(poids)))
         /\ id_counter' = id_counter + 1
         /\ file' = SaveData(entries')
         /\ tree' = UpdateTreeview(entries')
         /\ message' = MsgNone

\* The "Valider" button.
AddEntry ==
    \E matiere \in Materials, poids \in PoidsInputs, date \in Dates :
        AddEntryWith(matiere, poids, date)

\* Variant: entry.id is compared without str(), so nothing ever equals the text.
WithoutIdNoStr(es, entry_id) == SelectSeq(es, LAMBDA e : TRUE)

\* The list comprehension of delete_selected_entry.
WithoutId(es, entry_id) == SelectSeq(es, LAMBDA e : Str(e.id) # entry_id)

\* Variant: the delete does not write the file.
DeleteSelectedEntryNoSave(selection) ==
    IF selection = 0
    THEN /\ message' = MsgNoSelection
         /\ UNCHANGED <<entries, id_counter, file, tree>>
    ELSE /\ entries' = WithoutId(entries, tree[selection][1])
         /\ tree' = TreeDelete(tree, selection)
         /\ message' = MsgDeleted
         /\ UNCHANGED <<id_counter, file>>

\* delete_selected_entry, with the row selected in the table: its index in
\* tree, 0 when tree.selection() is empty.
DeleteSelectedEntry(selection) ==
    IF selection = 0
    THEN /\ message' = MsgNoSelection
         /\ UNCHANGED <<entries, id_counter, file, tree>>
    ELSE /\ entries' = WithoutId(entries, tree[selection][1])
         /\ file' = SaveData(entries')
         /\ tree' = TreeDelete(tree, selection)
         /\ message' = MsgDeleted
         /\ UNCHANGED id_counter

\* export_to_pdf: builds the document from self.entries and writes it under pdf/.
ExportToPdf ==
    /\ message' = MsgExported
    /\ UNCHANGED <<entries, id_counter, file, tree>>

\* Variant: the clear leaves the id counter where it was.
ClearTableNoReset(confirmed) ==
    IF confirmed
    THEN /\ entries' = <<>>
         /\ file' = SaveData(entries')
         /\ tree' = UpdateTreeview(entries')
         /\ message' = MsgCleared
         /\ UNCHANGED id_counter
    ELSE /\ message' = MsgNone
         /\ UNCHANGED <<entries, id_counter, file, tree>>

\* clear_table, with the answer to askokcancel.
ClearTable(confirmed) ==
    IF confirmed
    THEN /\ entries' = <<>>
         /\ id_counter' = 1
         /\ file' = SaveData(entries')
         /\ tree' = UpdateTreeview(entries')
         /\ message' = MsgCleared
    ELSE /\ message' = MsgNone
         /\ UNCHANGED <<entries, id_counter, file, tree>>

\* Variant: the action runs whatever was entered.
CheckPasswordIgnored(entered, action) == action

\* check_password(action), with what the dialog returned.
CheckPassword(entered, action) ==
    IF entered = Password
    THEN action
    ELSE /\ message' = MsgBadPassword
         /\ UNCHANGED <<entries, id_counter, file, tree>>

\* The three buttons behind the password.
DeleteButton ==
    \E entered \in PasswordInputs, selection \in 0..Len(tree) :
        CheckPassword(entered, DeleteSelectedEntry(selection))

ExportButton == \E entered \in PasswordInputs : CheckPassword(entered, ExportToPdf)

ClearButton ==
    \E entered \in PasswordInputs, confirmed \in BOOLEAN :
        CheckPassword(entered, ClearTable(confirmed))

\* Variant: the counter is taken from the first entry, not the last.
RestartFromFirst ==
    /\ entries' = LoadData(file)
    /\ id_counter' = IF entries' # <<>> THEN entries'[1].id + 1 ELSE 1
    /\ tree' = UpdateTreeview(entries')
    /\ message' = MsgNone
    /\ UNCHANGED file

\* The window is closed and the program started again: __init__ on the same file.
Restart ==
    /\ entries' = LoadData(file)
    /\ id_counter' = IF entries' # <<>> THEN entries'[Len(entries')].id + 1 ELSE 1
    /\ tree' = UpdateTreeview(entries')
    /\ message' = MsgNone
    /\ UNCHANGED file

\* The handlers, every write of data.json succeeding.
Next ==
    \/ AddEntry /\ UNCHANGED save_errors
    \/ DeleteButton /\ UNCHANGED save_errors
    \/ ExportButton /\ UNCHANGED save_errors
    \/ ClearButton /\ UNCHANGED save_errors
    \/ Restart /\ UNCHANGED save_errors

Spec == Init /\ [][Next]_vars

----------------------------------------------------------------------------
(* The same handlers when data.json cannot be opened for writing *)

\* open(FILE_PATH, "w") raises OSError in save_data: the file stays as it was,
\* the exception leaves the handler at that line, and Tk's callback wrapper
\* reports it on stderr and returns to the main loop.

\* add_entry up to the failing save: update_treeview is not reached.
AddEntrySaveFails ==
    \E matiere \in Materials, poids \in PoidsInputs, date \in Dates :
        /\ ValidateEntry(poids) = MsgNone
        /\ id_counter <= MaxId
        /\ save_errors < MaxSaveErrors
        /\ save_errors' = save_errors + 1
        /\ entries' = Append(entries,
                             Entry(id_counter, date, matiere, ModifWeight(poids)))
        /\ id_counter' = id_counter + 1
        /\ message' = MsgNone
        /\ UNCHANGED <<file, tree>>

\* delete_selected_entry up to the failing save: tree.delete is not reached.
DeleteSelectedEntrySaveFails(selection) ==
    /\ selection # 0
    /\ save_errors < MaxSaveErrors
    /\ save_errors' = save_errors + 1
    /\ entries' = WithoutId(entries, tree[selection][1])
    /\ message' = MsgNone
    /\ UNCHANGED <<id_counter, file, tree>>

DeleteButtonSaveFails ==
    \E selection \in 1..Len(tree) :
        CheckPassword(Password, DeleteSelectedEntrySaveFails(selection))

\* clear_table, confirmed, up to the failing save: update_treeview is not reached.
ClearTableSaveFails ==
    /\ save_errors < MaxSaveErrors
    /\ save_errors' = save_errors + 1
    /\ entries' = <<>>
    /\ id_counter' = 1
    /\ message' = MsgNone
    /\ UNCHANGED <<file, tree>>

ClearButtonSaveFails == CheckPassword(Password, ClearTableSaveFails)

NextSaveFails ==
    \/ Next
    \/ AddEntrySaveFails
    \/ DeleteButtonSaveFails
    \/ ClearButtonSaveFails

SpecSaveFails == Init /\ [][NextSaveFails]_vars

----------------------------------------------------------------------------
(* Vocabulary of the properties *)

\* The part of the state the data model is about.
store == <<entries, id_counter, file>>

Ids(es) == {es[i].id : i \in 1..Len(es)}

\* The highest id of a collection, 0 for the empty one.
MaxIdOf(es) == IF es = <<>> THEN 0 ELSE CHOOSE m \in Ids(es) : \A n \in Ids(es) : n <= m

Last(es) == es[Len(es)]

\* A collection without the element at index j.
Without(es, j) == SubSeq(es, 1, j - 1) \o SubSeq(es, j + 1, Len(es))

\* The weight text is present and parses as an integer.
ValidPoids(poids) == poids # <<>> /\ IsInt(poids)

ValidPoidsInputs == {poids \in PoidsInputs : ValidPoids(poids)}

InvalidPoidsInputs == PoidsInputs \ ValidPoidsInputs

----------------------------------------------------------------------------
(* C1 *)

\* C1: an add whose weight text is non-empty and parses as an integer w appends
\* exactly one Entry, whose weight is w - 45 and whose id is strictly greater
\* than the id of every entry in the store just before the add.
C1_AddAppends ==
    [][\A matiere \in Materials, poids \in ValidPoidsInputs, date \in Dates :
          AddEntryWith(matiere, poids, date) =>
              /\ Len(entries') = Len(entries) + 1
              /\ SubSeq(entries', 1, Len(entries)) = entries
              /\ Last(entries').poids + 45 = Int_(poids)
              /\ Last(entries').matiere = matiere
              /\ \A i \in 1..Len(entries) : entries[i].id < Last(entries').id]_vars

\* An add made after the entry with id 2 was deleted: ids 1 and 3, negative weight.
C1_Witness ==
    /\ Len(entries) = 2
    /\ entries[1].id = 1
    /\ entries[2].id = 3
    /\ entries[2].poids = 0 - 52

----------------------------------------------------------------------------
(* C2 *)

\* C2, as stated: the id given to a new entry by add is exactly the maximum id
\* among the entries currently in the store plus 1, or 1 if the store is empty.
C2_IdIsMaxPlusOne ==
    [][\A matiere \in Materials, poids \in ValidPoidsInputs, date \in Dates :
          AddEntryWith(matiere, poids, date) =>
              Last(entries').id = MaxIdOf(entries) + 1]_vars

\* C2, amended: the id given to a new entry is the id counter, which is at least
\* the maximum id in the store plus 1 (at least 1 if the store is empty); the two
\* are equal right after an add, a confirmed clear and a restart, and a delete
\* leaves the counter where it was.
C2_IdIsCounter ==
    [][/\ \A matiere \in Materials, poids \in ValidPoidsInputs, date \in Dates :
             AddEntryWith(matiere, poids, date) =>
                 /\ Last(entries').id = id_counter
                 /\ id_counter >= MaxIdOf(entries) + 1
                 /\ id_counter' = MaxIdOf(entries') + 1
       /\ (ClearTable(TRUE) \/ Restart) => id_counter' = MaxIdOf(entries') + 1
       /\ \A selection \in 0..Len(tree) :
             DeleteSelectedEntry(selection) =>
                 /\ id_counter' = id_counter
                 /\ id_counter' >= MaxIdOf(entries') + 1]_vars

\* The highest id was deleted and the next add did not reuse it: ids 1 and 3,
\* counter at 4.
C2_Witness ==
    /\ Len(entries) = 2
    /\ entries[1].id = 1
    /\ entries[2].id = 3
    /\ id_counter = 4
    /\ message = MsgNone

----------------------------------------------------------------------------
(* C3 *)

\* C3: started on an empty or absent file, the ids of the entries are pairwise
\* distinct and strictly increasing along the list, so the last entry carries
\* the maximum id.
C3_IdsIncreasing ==
    /\ \A i, j \in 1..Len(entries) : i < j => entries[i].id < entries[j].id
    /\ entries # <<>> => Last(entries).id = MaxIdOf(entries)

\* The first entry deleted, the other two left in id order.
C3_Witness ==
    /\ Len(entries) = 2
    /\ entries[1].id = 2
    /\ entries[2].id = 3
    /\ message = MsgDeleted

----------------------------------------------------------------------------
(* C4 *)

----------------------------------------------------------------------------
(* C5 *)

\* The state a confirmed clear leaves: nothing in memory, an empty list in the
\* file, the counter back at 1.
Cleared == entries = <<>> /\ file = SaveData(<<>>) /\ id_counter = 1

\* C5: a confirmed clear leaves the collection and the file empty, and from
\* then on every step either leaves things so or is the next successful add,
\* which yields an entry with id 1.
C5_ClearThenAdd ==
    [][/\ ClearTable(TRUE) =>
             entries' = <<>> /\ file'.exists /\ file'.data = <<>> /\ Cleared'
       /\ Cleared => \/ Cleared'
                     \/ Len(entries') = 1 /\ entries'[1].id = 1]_vars

\* The table has just been cleared.
C5_Witness == message = MsgCleared /\ Cleared

----------------------------------------------------------------------------
(* C7 *)

WrongPasswords == PasswordInputs \ {Password}

\* An add rejected by validate_entry.
RejectedAdd ==
    \E matiere \in Materials, poids \in InvalidPoidsInputs, date \in Dates :
        AddEntryWith(matiere, poids, date)

\* A delete, export or clear attempted with a password other than the secret.
RefusedByPassword ==
    \E entered \in WrongPasswords :
        \/ \E selection \in 0..Len(tree) :
              CheckPassword(entered, DeleteSelectedEntry(selection))
        \/ CheckPassword(entered, ExportToPdf)
        \/ \E confirmed \in BOOLEAN : CheckPassword(entered, ClearTable(confirmed))

\* C7: a failed or aborted operation leaves the collection, the id counter and
\* the file unchanged: (a) add with an empty or non-integer weight, (b) delete,
\* clear or export with a wrong password, (c) delete with no row selected,
\* (d) clear declined at the confirmation prompt.
C7_FailuresChangeNothing ==
    [][\/ UNCHANGED store
       \/ ~(\/ RejectedAdd
            \/ RefusedByPassword
            \/ DeleteSelectedEntry(0)
            \/ ClearTable(FALSE))]_vars

\* A wrong password was entered while the store held entries.
C7_Witness == message = MsgBadPassword /\ Len(entries) = 2

----------------------------------------------------------------------------
(* C8 *)

\* C8: for a non-empty collection, load applied to the file save wrote returns
\* the same collection: same length, order, id, date, material and weight; the
\* offset is not applied again.
C8_RoundTrip ==
    entries # <<>> =>
        LET loaded == LoadData(SaveData(entries))
        IN  /\ Len(loaded) = Len(entries)
            /\ \A i \in 1..Len(entries) :
                  /\ loaded[i].id = entries[i].id
                  /\ loaded[i].date = entries[i].date
                  /\ loaded[i].matiere = entries[i].matiere
                  /\ loaded[i].poids = entries[i].poids

\* A collection with a negative and a positive weight, as reloaded from its file.
C8_Witness ==
    /\ Len(entries) = 3
    /\ entries[1].poids = 0 - 52
    /\ entries[2].poids = 5
    /\ entries = LoadData(file)
    /\ file.exists

----------------------------------------------------------------------------
(* C9 *)

RECURSIVE SumPoids(_, _)
\* The sum of the weights of the entries of material m.
SumPoids(es, m) ==
    IF es = <<>> THEN 0
    ELSE (IF Head(es).matiere = m THEN Head(es).poids ELSE 0) + SumPoids(Tail(es), m)

\* The entries in the order given by permutation p of their indices.
Permuted(es, p) == [i \in 1..Len(es) |-> es[p[i]]]

\* C9: the weight summary of any reordering of the entries is the same mapping,
\* from each material present to the sum of the weights of its entries.
C9_SummaryPermutation ==
    \A p \in Permutations(1..Len(entries)) :
        LET summary == CalculateWeightSummary(Permuted(entries, p))
        IN  /\ summary = CalculateWeightSummary(entries)
            /\ DOMAIN summary = {entries[i].matiere : i \in 1..Len(entries)}
            /\ \A m \in DOMAIN summary : summary[m] = SumPoids(entries, m)

\* An export of three entries, two of one material with different weights.
C9_Witness ==
    /\ message = MsgExported
    /\ Len(entries) = 3
    /\ entries[1].matiere = entries[3].matiere
    /\ entries[1].matiere # entries[2].matiere
    /\ entries[1].poids # entries[3].poids

----------------------------------------------------------------------------
(* C10 *)

\* C10: a successful delete of the selected entry removes exactly the entry
\* whose id the row shows: the others stay, unchanged and in the same order,
\* and the id counter is left alone.
C10_DeleteRemovesOne ==
    [][\A selection \in 1..Len(tree) :
          DeleteSelectedEntry(selection) =>
              \E j \in 1..Len(entries) :
                  /\ Row(entries[j]) = tree[selection]
                  /\ \A i \in 1..Len(entries) :
                        i # j => Str(entries[i].id) # tree[selection][1]
                  /\ entries' = Without(entries, j)
                  /\ id_counter' = id_counter
                  /\ message' = MsgDeleted]_vars

\* The middle one of three entries was deleted.
C10_Witness ==
    /\ message = MsgDeleted
    /\ Len(entries) = 2
    /\ entries[1].id = 1
    /\ entries[2].id = 3
    /\ id_counter = 4

----------------------------------------------------------------------------
(* C6 *)

\* The row at index selection shows an id that no entry of the store has.
MatchesNoEntry(selection) ==
    \A i \in 1..Len(entries) : Str(entries[i].id) # tree[selection][1]

\* C6: a delete for an id that matches no entry in the store leaves the
\* collection unchanged and reports not-found: it does not report a deletion.
C6_DeleteNotFound ==
    [][\A selection \in 1..Len(tree) :
          (MatchesNoEntry(selection) /\ DeleteSelectedEntry(selection)) =>
              entries' = entries /\ message' # MsgDeleted]_vars

====
